---- MODULE Spec2Model ----
(***************************************************************************)
(* waftest.py: discovery of the largest request header / request body a    *)
(* remote edge accepts.  For each probe kind a coarse binary search        *)
(* (binary_search_max_header, binary_search_max_payload) is followed by    *)
(* refine_boundary (overshoot loop, then fine binary search) and by the    *)
(* summary of async_main.  One step of the model is one loop iteration     *)
(* (one awaited probe and the update that follows it) or one return.       *)
(***************************************************************************)
EXTENDS Integers, Sequences, FiniteSets, TLC

\* ------------------------------------------------------------ configuration

MIN_SIZE == 64000
MAX_SIZE == 10485760
HEADER_MIN_SIZE == 1000
HEADER_MAX_SIZE == 1048576
\* refine_boundary's local `step`
STEP == 10000

\* Bounds of the scaled-down configurations explored with an arbitrary remote.
MaxSize == 3
SmallStep == 2
\* An arbitrary remote accepts at most this many overshoot probes of one run.
MaxOvershoot == 1

Ranges == {r \in [lo : 1..MaxSize, hi : 1..MaxSize] : r.lo <= r.hi}

\* The configuration of the source.
SourceCfg ==
    [header |-> [lo |-> HEADER_MIN_SIZE, hi |-> HEADER_MAX_SIZE],
     payload |-> [lo |-> MIN_SIZE, hi |-> MAX_SIZE],
     step |-> STEP]

\* Scaled-down configurations: every header range, the payload range being
\* the header range moved up by one byte (the two kinds never share a range).
SmallCfgs ==
    {[header |-> r, payload |-> [lo |-> r.lo + 1, hi |-> r.hi + 1],
      step |-> SmallStep] : r \in Ranges}

\* ------------------------------------------------------------------ headers
\* A header dict is a set of [key, value] entries with distinct keys; a key
\* is a sequence of characters.

NoHeaders == {}

K_Server == <<"S", "e", "r", "v", "e", "r">>
K_XAzionId == <<"X", "-", "A", "z", "i", "o", "n">>
K_ContentType == <<"C", "o", "n", "t", "e", "n", "t">>

HeadersA == {[key |-> K_Server, value |-> "edge-a"],
             [key |-> K_ContentType, value |-> "text/html"]}
HeadersB == {[key |-> K_XAzionId, value |-> "edge-b"]}
HeadersErr == {[key |-> K_ContentType, value |-> "text/plain"]}

\* str.lower() on the characters that occur
LowerChar(c) ==
    CASE c = "S" -> "s"
      [] c = "X" -> "x"
      [] c = "A" -> "a"
      [] c = "C" -> "c"
      [] OTHER -> c

Lower(s) == [i \in 1..Len(s) |-> LowerChar(s[i])]

StartsWith(s, p) == Len(p) <= Len(s) /\ SubSeq(s, 1, Len(p)) = p

prefixes ==
    {<<"x", "-", "a", "z", "i", "o", "n">>,
     <<"a", "z", "i", "o", "n">>,
     <<"x", "-", "c", "a", "c", "h", "e">>,
     <<"s", "e", "r", "v", "e", "r">>}

extract_azion_metadata(headers) ==
    {e \in headers : \E p \in prefixes : StartsWith(Lower(e.key), p)}

\* -------------------------------------------------------------- limit guess

common_limits ==
    <<65536, 131072, 262144, 524288, 1048576, 2097152, 5242880, 10485760,
      8192, 16384, 32768>>

Abs(x) == IF x < 0 THEN -x ELSE x

\* A variant of the tolerance test that also takes a size at exactly 5%.
WithinTolerance_Inclusive(size, limit) == 20 * Abs(size - limit) <= limit

\* abs(size - limit) / limit < 0.05: the quotient is a double; it is below
\* the double 0.05 exactly when 20 * |size - limit| < limit (at equality the
\* quotient rounds to the double 0.05 itself).
WithinTolerance(size, limit) == 20 * Abs(size - limit) < limit

\* "{x:.2f}" of size / d for d a power of two: the quotient is exact, the
\* format rounds half to even; the result is given in hundredths.
Fmt2(size, d) ==
    LET n == size * 100
        q == n \div d
        r == n % d
    IN  IF 2 * r > d \/ (2 * r = d /\ q % 2 = 1) THEN q + 1 ELSE q

\* The label: the matched table entry (limit > 0), or the custom label with
\* the size in hundredths of a KB.
guess_limit_type(size) ==
    LET hits == {i \in 1..Len(common_limits) : WithinTolerance(size, common_limits[i])}
    IN  IF hits # {}
        THEN [limit |-> common_limits[CHOOSE i \in hits : \A j \in hits : i <= j],
              kb100 |-> 0]
        ELSE [limit |-> 0, kb100 |-> Fmt2(size, 1024)]

\* ------------------------------------------------------------------- state

VARIABLES
    cfg,            \* the ranges and the step in force
    remote,         \* the behaviour of the remote service
    pc,             \* where async_main is suspended
    label,          \* refine_boundary's label ("header" / "payload")
    low, high,      \* the binary search in progress (coarse or fine)
    found_max,      \* coarse search: best accepted size so far
    max_header_size,  \* async_main: binary_search_max_header's result (-1: not yet)
    max_payload_size, \* async_main: binary_search_max_payload's result (-1: not yet)
    base_size,      \* refine_boundary's argument
    current,        \* refine_boundary's overshoot position
    last_ok,        \* refine_boundary: last accepted size of the fine phase
    last_headers,   \* refine_boundary: its response headers
    header_result,  \* async_main: <<>> for None, else <<result>>
    payload_result, \* async_main: <<>> for None, else <<result>>
    out,            \* the final summary printed by async_main
    log,            \* probes issued by the pipeline run in progress
    last            \* kind, phase, status and printed verdict of the latest probe

vars ==
    <<cfg, remote, pc, label, low, high, found_max, max_header_size,
      max_payload_size, base_size, current, last_ok, last_headers,
      header_result, payload_result, out, log, last>>

None == <<>>

\* ------------------------------------------------------------------ remote

OkStatuses == {200, 201, 204, 501}
RejectStatuses == {400, 431, 500}

Failure == [failed |-> TRUE, status |-> 0, headers |-> NoHeaders]

Http(s, h) == [failed |-> FALSE, status |-> s, headers |-> h]

\* What an arbitrary remote may answer to one request; an accepted response
\* may carry vendor headers or no header at all.
AnyOutcomes ==
    {Failure}
    \cup {Http(s, h) : s \in OkStatuses, h \in {HeadersB, NoHeaders}}
    \cup {Http(s, HeadersErr) : s \in RejectStatuses}

\* What a rejecting monotonic remote answers above its threshold.
RejectOutcomes == {Failure} \cup {Http(s, HeadersErr) : s \in RejectStatuses}

\* The remote's answer to a request of the given kind and size: arbitrary
\* for the kinds in remote.arb, and for the others accepted (remote.acc)
\* exactly up to the threshold remote.T[kind] and rejected (remote.rej) above.
Remote(kind, size) ==
    IF kind \in remote.arb THEN AnyOutcomes
    ELSE {IF size <= remote.T[kind] THEN Http(remote.acc, HeadersA) ELSE remote.rej}

\* A variant of test_payload / test_header in which a request that raises is
\* reported as a blocked one.
Result_FailureAsBlocked(o) ==
    IF o.failed THEN [status |-> 400, headers |-> NoHeaders]
    ELSE [status |-> o.status, headers |-> o.headers]

\* client.post(...) returning (status_code, dict(headers)), or (0, {}) when
\* the request raises.
Result(o) ==
    IF o.failed THEN [status |-> 0, headers |-> NoHeaders]
    ELSE [status |-> o.status, headers |-> o.headers]

test_payload(size) == {Result(o) : o \in Remote("payload", size)}

test_header(size) == {Result(o) : o \in Remote("header", size)}

test_func(kind, size) ==
    IF kind = "header" THEN test_header(size) ELSE test_payload(size)

\* ------------------------------------------------------- tests on the status

\* http_code in (200, 201, 204, 501)
IsOk(http_code) == http_code \in {200, 201, 204, 501}

\* http_code in (400, 431), refine_boundary's BLOCKED branch
IsBlocked(http_code) == http_code \in {400, 431}

\* The verdict binary_search_max_payload prints.
PayloadVerdict(http_code) ==
    IF IsOk(http_code) THEN "OK"
    ELSE IF http_code = 400 THEN "WAF BLOCKED"
    ELSE "FAILED"

\* The verdict binary_search_max_header prints.
HeaderVerdict(http_code) ==
    IF IsOk(http_code) THEN "OK"
    ELSE IF http_code = 400 THEN "WAF BLOCKED"
    ELSE IF http_code = 431 THEN "HEADER TOO LARGE"
    ELSE "FAILED"

\* The verdict refine_boundary prints, in both of its loops.
RefineVerdict(http_code) ==
    IF IsOk(http_code) THEN "OK"
    ELSE IF IsBlocked(http_code) THEN "BLOCKED"
    ELSE "FAILED"

\* A variant of the midpoint that is one too high.
Mid_OneAbove(lo, hi) == (lo + hi) \div 2 + 1

Mid(lo, hi) == (lo + hi) \div 2

Entry(kind, phase, size, r) ==
    [kind |-> kind, phase |-> phase, size |-> size, ok |-> IsOk(r.status),
     headers |-> r.headers]

\* ------------------------------------------------------------ loop bodies

\* Variants of the loop bodies with one slip each, used to show that the
\* properties below depend on the loop bodies as written.
CoarseUpdate_SkipsOne(s, mid, http_code) ==
    IF http_code \in {200, 201, 204, 501}
    THEN [low |-> mid + 2, high |-> s.high, found_max |-> mid]
    ELSE [low |-> s.low, high |-> mid - 1, found_max |-> s.found_max]

CoarseUpdate_RecordsRejected(s, mid, http_code) ==
    IF http_code \in {200, 201, 204, 501}
    THEN [low |-> mid + 1, high |-> s.high, found_max |-> mid]
    ELSE [low |-> s.low, high |-> mid - 1, found_max |-> mid]

CoarseUpdate_KeepsMid(s, mid, http_code) ==
    IF http_code \in {200, 201, 204, 501}
    THEN [low |-> mid + 1, high |-> s.high, found_max |-> mid]
    ELSE [low |-> s.low, high |-> mid, found_max |-> s.found_max]

CoarseUpdate_ErrorMovesUp(s, mid, http_code) ==
    IF http_code \in {200, 201, 204, 501}
    THEN [low |-> mid + 1, high |-> s.high, found_max |-> mid]
    ELSE IF http_code \in {400, 431}
    THEN [low |-> s.low, high |-> mid - 1, found_max |-> s.found_max]
    ELSE [low |-> mid + 1, high |-> s.high, found_max |-> s.found_max]

\* One iteration of the coarse loop after the probe of mid answered
\* http_code; s holds low, high and found_max.
CoarseUpdate(s, mid, http_code) ==
    IF IsOk(http_code)
    THEN [low |-> mid + 1, high |-> s.high, found_max |-> mid]
    ELSE [low |-> s.low, high |-> mid - 1, found_max |-> s.found_max]

\* One iteration of the overshoot loop after the probe of cur answered
\* http_code: the new `current`, and whether the loop goes on.
OvershootUpdate(cur, step, http_code) ==
    IF IsBlocked(http_code) THEN [current |-> cur, again |-> FALSE]
    ELSE IF IsOk(http_code) THEN [current |-> cur + step, again |-> TRUE]
    ELSE [current |-> cur, again |-> FALSE]

FineUpdate_KeepsFirstHeaders(s, mid, r) ==
    IF r.status \in {200, 201, 204, 501}
    THEN [low |-> mid + 1, high |-> s.high, last_ok |-> mid,
          last_headers |-> IF s.last_headers = NoHeaders THEN r.headers
                           ELSE s.last_headers]
    ELSE [low |-> s.low, high |-> mid - 1, last_ok |-> s.last_ok,
          last_headers |-> s.last_headers]

FineUpdate_ForgetsLastOk(s, mid, r) ==
    IF r.status \in {200, 201, 204, 501}
    THEN [low |-> mid + 1, high |-> s.high, last_ok |-> s.last_ok,
          last_headers |-> r.headers]
    ELSE [low |-> s.low, high |-> mid - 1, last_ok |-> s.last_ok,
          last_headers |-> s.last_headers]

FineUpdate_DropsHeaders(s, mid, r) ==
    IF r.status \in {200, 201, 204, 501}
    THEN [low |-> mid + 1, high |-> s.high, last_ok |-> mid,
          last_headers |-> s.last_headers]
    ELSE [low |-> s.low, high |-> mid - 1, last_ok |-> s.last_ok,
          last_headers |-> s.last_headers]

FineUpdate_HeadersOnReject(s, mid, r) ==
    IF r.status \in {200, 201, 204, 501}
    THEN [low |-> mid + 1, high |-> s.high, last_ok |-> mid,
          last_headers |-> r.headers]
    ELSE [low |-> s.low, high |-> mid - 1, last_ok |-> s.last_ok,
          last_headers |-> r.headers]

FineUpdate_RetriesMid(s, mid, r) ==
    IF r.status \in {200, 201, 204, 501}
    THEN [low |-> mid + 1, high |-> s.high, last_ok |-> mid,
          last_headers |-> r.headers]
    ELSE [low |-> s.low, high |-> mid, last_ok |-> s.last_ok,
          last_headers |-> s.last_headers]

\* One iteration of the fine loop after the probe of mid answered r; s holds
\* low, high, last_ok and last_headers.
FineUpdate(s, mid, r) ==
    IF IsOk(r.status)
    THEN [low |-> mid + 1, high |-> s.high, last_ok |-> mid,
          last_headers |-> r.headers]
    ELSE [low |-> s.low, high |-> mid - 1, last_ok |-> s.last_ok,
          last_headers |-> s.last_headers]

\* refine_boundary's return value stored by async_main with its guess.
MakeResult(size, headers) ==
    [size |-> size, headers |-> headers, guess |-> guess_limit_type(size)]

\* ---------------------------------------------------------------- summary

NotFound == [found |-> FALSE, size |-> 0, kb100 |-> 0, mb100 |-> 0,
             guess |-> [limit |-> 0, kb100 |-> 0], first_blocked |-> 0]

\* The header block of the summary (no MB line).
HeaderBlock(hr) ==
    IF hr # None
    THEN [found |-> TRUE, size |-> hr[1].size, kb100 |-> Fmt2(hr[1].size, 1024),
          mb100 |-> 0, guess |-> hr[1].guess, first_blocked |-> hr[1].size + 1]
    ELSE NotFound

PayloadBlock(pr) ==
    IF pr # None
    THEN [found |-> TRUE, size |-> pr[1].size, kb100 |-> Fmt2(pr[1].size, 1024),
          mb100 |-> Fmt2(pr[1].size, 1024 * 1024), guess |-> pr[1].guess,
          first_blocked |-> pr[1].size + 1]
    ELSE NotFound

MetadataSource_PrefersHeader(hr, pr) ==
    IF hr # None THEN hr[1].headers ELSE pr[1].headers

\* The headers whose metadata the summary shows.
MetadataSource(hr, pr) ==
    IF pr # None THEN pr[1].headers ELSE hr[1].headers

\* The metadata block: the entries printed (none printed when empty).
MetadataBlock(hr, pr) ==
    IF pr # None \/ hr # None
    THEN extract_azion_metadata(MetadataSource(hr, pr))
    ELSE {}

Summary(hr, pr) ==
    <<[header |-> HeaderBlock(hr), payload |-> PayloadBlock(pr),
       metadata |-> MetadataBlock(hr, pr)]>>

\* ------------------------------------------------------------------ actions

NoProbe == [kind |-> "", phase |-> "", status |-> 0, said |-> ""]

Said(kind, phase, http_code, verdict) ==
    [kind |-> kind, phase |-> phase, status |-> http_code, said |-> verdict]

Found_AllowsZero(max_size) == max_size >= 0

\* if max_header_size > 0 / if max_payload_size > 0
Found(max_size) == max_size > 0

\* async_main up to the first probe of binary_search_max_header.
InitWith(c, rm) ==
    /\ cfg = c
    /\ remote = rm
    /\ pc = "header_coarse"
    /\ label = ""
    /\ low = c.header.lo
    /\ high = c.header.hi
    /\ found_max = 0
    /\ max_header_size = -1
    /\ max_payload_size = -1
    /\ base_size = 0
    /\ current = 0
    /\ last_ok = 0
    /\ last_headers = NoHeaders
    /\ header_result = None
    /\ payload_result = None
    /\ out = None
    /\ log = <<>>
    /\ last = NoProbe

\* The remotes explored with an arbitrary behaviour: one kind of probe is
\* answered arbitrarily, the other kind by a threshold that accepts nothing
\* or accepts up to MaxSize.
Kinds == {"header", "payload"}

ArbRemotes ==
    {[arb |-> {k}, T |-> [j \in Kinds |-> IF j = k THEN 0 ELSE t],
      acc |-> 200, rej |-> Http(400, HeadersErr)] :
        k \in Kinds, t \in {0, MaxSize}}

Init == \E c \in SmallCfgs, rm \in ArbRemotes : InitWith(c, rm)

\* binary_search_max_header: one iteration of its loop.
HeaderCoarseProbe ==
    /\ pc = "header_coarse"
    /\ low <= high
    /\ LET mid == Mid(low, high)
       IN  \E r \in test_header(mid) :
             LET s == CoarseUpdate([low |-> low, high |-> high,
                                    found_max |-> found_max], mid, r.status)
             IN  /\ low' = s.low
                 /\ high' = s.high
                 /\ found_max' = s.found_max
                 /\ log' = Append(log, Entry("header", "coarse", mid, r))
                 /\ last' = Said("header", "coarse", r.status, HeaderVerdict(r.status))
    /\ UNCHANGED <<cfg, remote, pc, label, max_header_size, max_payload_size,
                   base_size, current, last_ok, last_headers, header_result,
                   payload_result, out>>

\* async_main entering refine_boundary(client, base, test_func, kind).
EnterRefine(kind, base) ==
    /\ pc' = "overshoot"
    /\ label' = kind
    /\ base_size' = base
    /\ current' = base
    /\ low' = 0
    /\ high' = 0
    /\ found_max' = 0
    /\ UNCHANGED <<last_ok, last_headers, log>>

\* async_main entering binary_search_max_payload.
EnterPayloadCoarse ==
    /\ pc' = "payload_coarse"
    /\ label' = ""
    /\ low' = cfg.payload.lo
    /\ high' = cfg.payload.hi
    /\ found_max' = 0
    /\ base_size' = 0
    /\ current' = 0
    /\ last_ok' = 0
    /\ last_headers' = NoHeaders
    /\ log' = <<>>

\* binary_search_max_header returns; async_main refines the result when it
\* is positive, else goes on to the payload search with no header result.
HeaderCoarseReturn ==
    /\ pc = "header_coarse"
    /\ low > high
    /\ max_header_size' = found_max
    /\ IF Found(max_header_size')
       THEN /\ EnterRefine("header", max_header_size')
            /\ UNCHANGED header_result
       ELSE /\ header_result' = None
            /\ EnterPayloadCoarse
    /\ UNCHANGED <<cfg, remote, max_payload_size, payload_result, out, last>>

\* binary_search_max_payload: one iteration of its loop.
PayloadCoarseProbe ==
    /\ pc = "payload_coarse"
    /\ low <= high
    /\ LET mid == Mid(low, high)
       IN  \E r \in test_payload(mid) :
             LET s == CoarseUpdate([low |-> low, high |-> high,
                                    found_max |-> found_max], mid, r.status)
             IN  /\ low' = s.low
                 /\ high' = s.high
                 /\ found_max' = s.found_max
                 /\ log' = Append(log, Entry("payload", "coarse", mid, r))
                 /\ last' = Said("payload", "coarse", r.status, PayloadVerdict(r.status))
    /\ UNCHANGED <<cfg, remote, pc, label, max_header_size, max_payload_size,
                   base_size, current, last_ok, last_headers, header_result,
                   payload_result, out>>

\* The end of async_main: the summary is printed.
Finish(hr, pr) ==
    /\ pc' = "done"
    /\ out' = Summary(hr, pr)
    /\ label' = ""
    /\ low' = 0
    /\ high' = 0
    /\ found_max' = 0
    /\ base_size' = 0
    /\ current' = 0
    /\ last_ok' = 0
    /\ last_headers' = NoHeaders

\* binary_search_max_payload returns; async_main refines the result when it
\* is positive, else prints the summary with no payload result.
PayloadCoarseReturn ==
    /\ pc = "payload_coarse"
    /\ low > high
    /\ max_payload_size' = found_max
    /\ IF Found(max_payload_size')
       THEN /\ EnterRefine("payload", max_payload_size')
            /\ UNCHANGED <<payload_result, out>>
       ELSE /\ payload_result' = None
            /\ Finish(header_result, None)
            /\ UNCHANGED log
    /\ UNCHANGED <<cfg, remote, max_header_size, header_result, last>>

\* refine_boundary: one iteration of the overshoot loop; on leaving it the
\* fine search is set up on [base_size, current].  An arbitrary remote
\* accepts at most MaxOvershoot overshoot probes.
OvershootProbe ==
    /\ pc = "overshoot"
    /\ \E r \in test_func(label, current) :
         LET o == OvershootUpdate(current, cfg.step, r.status)
         IN  /\ IsOk(r.status) =>
                  label \notin remote.arb \/ current < base_size + MaxOvershoot * cfg.step
             /\ current' = o.current
             /\ log' = Append(log, Entry(label, "overshoot", current, r))
             /\ last' = Said(label, "overshoot", r.status, RefineVerdict(r.status))
             /\ IF o.again
                THEN UNCHANGED <<pc, low, high, last_ok, last_headers>>
                ELSE /\ pc' = "fine"
                     /\ low' = base_size
                     /\ high' = o.current
                     /\ last_ok' = base_size
                     /\ last_headers' = NoHeaders
    /\ UNCHANGED <<cfg, remote, label, found_max, max_header_size,
                   max_payload_size, base_size, header_result, payload_result,
                   out>>

\* refine_boundary: one iteration of the fine loop.
FineProbe ==
    /\ pc = "fine"
    /\ low <= high
    /\ LET mid == Mid(low, high)
       IN  \E r \in test_func(label, mid) :
             LET s == FineUpdate([low |-> low, high |-> high, last_ok |-> last_ok,
                                  last_headers |-> last_headers], mid, r)
             IN  /\ low' = s.low
                 /\ high' = s.high
                 /\ last_ok' = s.last_ok
                 /\ last_headers' = s.last_headers
                 /\ log' = Append(log, Entry(label, "fine", mid, r))
                 /\ last' = Said(label, "fine", r.status, RefineVerdict(r.status))
    /\ UNCHANGED <<cfg, remote, pc, label, found_max, max_header_size,
                   max_payload_size, base_size, current, header_result,
                   payload_result, out>>

\* refine_boundary returns (last_ok, last_headers); async_main stores the
\* result and goes on: to the payload search after the header pipeline, to
\* the summary after the payload pipeline.
RefineReturn ==
    /\ pc = "fine"
    /\ low > high
    /\ IF label = "header"
       THEN /\ header_result' = <<MakeResult(last_ok, last_headers)>>
            /\ EnterPayloadCoarse
            /\ UNCHANGED <<payload_result, out>>
       ELSE /\ payload_result' = <<MakeResult(last_ok, last_headers)>>
            /\ Finish(header_result, payload_result')
            /\ UNCHANGED <<header_result, log>>
    /\ UNCHANGED <<cfg, remote, max_header_size, max_payload_size, last>>

Next ==
    \/ HeaderCoarseProbe
    \/ HeaderCoarseReturn
    \/ PayloadCoarseProbe
    \/ PayloadCoarseReturn
    \/ OvershootProbe
    \/ FineProbe
    \/ RefineReturn

Spec == Init /\ [][Next]_vars

\* ------------------------------------------- the deterministic monotonic remote

\* Thresholds tried against the configuration of the source, per kind:
\* below, at and inside the range, at its upper end and above it.
SourceHeaderThresholds ==
    {0, 999, 1000, 8192, 1048575, 1048576, 1048577, 1075000}

SourcePayloadThresholds ==
    {0, 63999, 64000, 73000, 10485759, 10485760, 10485761, 10500000}

\* Remotes that answer both kinds by a threshold.
MonoRemotes(hts, pts) ==
    {[arb |-> {}, T |-> [header |-> th, payload |-> tp], acc |-> a, rej |-> o] :
        th \in hts, tp \in pts, a \in {200, 501}, o \in RejectOutcomes}

InitMono ==
    \/ \E rm \in MonoRemotes(SourceHeaderThresholds, SourcePayloadThresholds) :
         InitWith(SourceCfg, rm)
    \/ \E c \in SmallCfgs, rm \in MonoRemotes(0..(MaxSize + 2), 0..(MaxSize + 2)) :
         InitWith(c, rm)

SpecMono == InitMono /\ [][Next]_vars

\* ------------------------------------------- runs that exercise the limit guess

\* Sizes on and around both ends of every table entry's 5% band, and the two
\* sizes 65500 and 77777.
GuessSizes ==
    {65500, 77777}
    \cup UNION {{L, L - (L \div 20) + d, L + (L \div 20) + d} :
                  L \in {common_limits[i] : i \in 1..Len(common_limits)},
                  d \in {-1, 0, 1}}

\* Remotes with one of these sizes as the threshold of one kind, the other
\* kind being rejected at every size: async_main passes the refined size,
\* which is the threshold, to guess_limit_type.
GuessRemotes ==
    {[arb |-> {}, T |-> [header |-> t, payload |-> 0], acc |-> 200,
      rej |-> Http(400, HeadersErr)] :
        t \in {s \in GuessSizes : s <= HEADER_MAX_SIZE + (HEADER_MAX_SIZE \div 20) + 1}}
    \cup
    {[arb |-> {}, T |-> [header |-> 0, payload |-> t], acc |-> 200,
      rej |-> Http(400, HeadersErr)] :
        t \in {s \in GuessSizes : s >= MIN_SIZE}}

InitGuess == \E rm \in GuessRemotes : InitWith(SourceCfg, rm)

SpecGuess == InitGuess /\ [][Next]_vars

\* ------------------------------------------------ the unbounded overshoot loop

\* refine_boundary: an iteration of the overshoot loop whose probe is accepted
\* once MaxOvershoot probes have been: the loop goes on (lines 141-143).  From
\* here on the state stands for every later iteration: `current` and the log
\* are no longer advanced, only the latest answer is recorded.
OvershootBeyond ==
    /\ pc = "overshoot"
    /\ label \in remote.arb
    /\ current >= base_size + MaxOvershoot * cfg.step
    /\ \E r \in test_func(label, current) :
         /\ OvershootUpdate(current, cfg.step, r.status).again
         /\ last' = Said(label, "overshoot", r.status, RefineVerdict(r.status))
    /\ UNCHANGED <<cfg, remote, pc, label, low, high, found_max, max_header_size,
                   max_payload_size, base_size, current, last_ok, last_headers,
                   header_result, payload_result, out, log>>

NextLive == Next \/ OvershootBeyond

\* asyncio runs the one coroutine to its end and every probe returns (a
\* response, or an exception after the 30 s timeout at the latest): the
\* program always takes its next step.
SpecLive == Init /\ [][NextLive]_vars /\ WF_vars(NextLive)

\* ------------------------------------------------------- properties: helpers

Phase(ph) == SelectSeq(log, LAMBDA e : e.phase = ph)

Range(seq) == {seq[i] : i \in 1..Len(seq)}

AtCoarseReturn == pc \in {"header_coarse", "payload_coarse"} /\ low > high

CoarseKind == IF pc = "header_coarse" THEN "header" ELSE "payload"

AtRefineReturn == pc = "fine" /\ low > high

\* Every answer the remote can give to this request is an accepted status.
Accepts(kind, size) == \A r \in test_func(kind, size) : r.status \in OkStatuses

\* Every answer the remote can give to this request is a rejection.
Rejects(kind, size) == \A r \in test_func(kind, size) : r.status \notin OkStatuses

\* ---------------------------------------------------------------------- C1
\* C1 (SpecMono): against a remote that accepts exactly the sizes <= T, when
\* refine_boundary is about to return (last_ok, last_headers) for a base
\* <= T, last_ok is a size the remote accepts, last_ok + 1 is a size the
\* remote rejects or is the `current` the overshoot loop reached, and
\* last_ok = T.
C1_RefinerExact ==
    (AtRefineReturn /\ base_size <= remote.T[label]) =>
        /\ Accepts(label, last_ok)
        /\ (Rejects(label, last_ok + 1) \/ last_ok + 1 = current)
        /\ last_ok = remote.T[label]

\* The refiner returns for the source's payload range with a base strictly
\* below the threshold, after more than one accepted overshoot probe.
C1_Witness ==
    /\ AtRefineReturn
    /\ cfg = SourceCfg
    /\ label = "payload"
    /\ base_size = MAX_SIZE
    /\ remote.T["payload"] = 10500000
    /\ current > base_size + cfg.step
    /\ last_ok = 10500000

\* ---------------------------------------------------------------------- C2
\* C2 (Spec): whatever the remote answers, while and when the coarse search
\* ends, found_max is 0 with no coarse probe of the run accepted, or it is
\* the size of an accepted coarse probe and the largest accepted size.
C2_CoarseLargestAccepted ==
    pc \in {"header_coarse", "payload_coarse"} =>
        LET acc == {e.size : e \in {x \in Range(Phase("coarse")) : x.ok}}
        IN  \/ found_max = 0 /\ acc = {}
            \/ found_max \in acc /\ \A a \in acc : a <= found_max

\* A coarse search returns after an accepted probe followed by a rejected
\* probe of a larger size, under arbitrary answers.
C2_Witness ==
    /\ AtCoarseReturn
    /\ CoarseKind \in remote.arb
    /\ found_max > 0
    /\ \E i, j \in 1..Len(log) :
         i < j /\ log[i].ok /\ ~log[j].ok /\ log[i].size < log[j].size

\* ---------------------------------------------------------------------- C3
\* The value the coarse search must return on range r against threshold t.
CoarseExpected(r, t) == IF t < r.lo THEN 0 ELSE IF t > r.hi THEN r.hi ELSE t

\* C3 (SpecMono): against a remote that accepts exactly the sizes <= T, the
\* coarse search over [lo, hi] returns T when lo <= T <= hi, hi when T > hi
\* and 0 when T < lo; and the refined result stored for a kind is exactly T,
\* a result being stored exactly when lo <= T.
C3_EndToEndExact ==
    /\ AtCoarseReturn =>
         found_max = CoarseExpected(cfg[CoarseKind], remote.T[CoarseKind])
    /\ header_result # None => header_result[1].size = remote.T["header"]
    /\ payload_result # None => payload_result[1].size = remote.T["payload"]
    /\ pc \notin {"header_coarse", "overshoot", "fine"} \/ label = "payload" =>
         (header_result # None <=> cfg.header.lo <= remote.T["header"])
    /\ pc = "done" =>
         (payload_result # None <=> cfg.payload.lo <= remote.T["payload"])

\* The scenario of the spec: threshold 73000 on [64000, 10485760]; the coarse
\* search returned 73000 and so did the refiner.
C3_Witness ==
    /\ pc = "done"
    /\ cfg = SourceCfg
    /\ remote.T["payload"] = 73000
    /\ max_payload_size = 73000
    /\ payload_result # None
    /\ payload_result[1].size = 73000

\* ---------------------------------------------------------------------- C4
RECURSIVE Log2Floor(_)
Log2Floor(n) == IF n <= 1 THEN 0 ELSE 1 + Log2Floor(n \div 2)

\* floor(log2(n)) + 1 probes for a range of n >= 1 sizes, none for an empty one.
ProbeBound(n) == IF n <= 0 THEN 0 ELSE Log2Floor(n) + 1

\* C4 (Spec): whatever the remote answers, the probes issued so far by a
\* coarse search plus the bound for the range that is left never exceed
\* floor(log2(hi - lo + 1)) + 1 for its initial range [lo, hi]: every probe
\* shrinks the range and the loop is left within that many probes.
C4_CoarseProbeBound ==
    pc \in {"header_coarse", "payload_coarse"} =>
        Len(log) + ProbeBound(high - low + 1)
            <= ProbeBound(cfg[CoarseKind].hi - cfg[CoarseKind].lo + 1)

\* A coarse search over a range of one size ends after its single probe.
C4_Witness ==
    /\ AtCoarseReturn
    /\ CoarseKind \in remote.arb
    /\ cfg[CoarseKind].lo = cfg[CoarseKind].hi
    /\ Len(log) = 1

\* ---------------------------------------------------------------------- C5
\* Verdicts that report a probe as blocked, and as an error.
BlockedVerdicts == {"WAF BLOCKED", "HEADER TOO LARGE", "BLOCKED"}

ErrorVerdicts == {"FAILED"}

\* C5 (Spec): a probe answered 431 is reported as blocked when it is a header
\* probe and as an error when it is a payload probe, in every phase.
C5_Status431ByKind ==
    (last.said # "" /\ last.status = 431) =>
        IF last.kind = "header" THEN last.said \in BlockedVerdicts
        ELSE last.said \in ErrorVerdicts

\* ---------------------------------------------------------------------- C6
\* The overshoot loop ended on its first probe, the one of base_size.
FirstOvershootRejected ==
    /\ pc = "fine"
    /\ Len(Phase("overshoot")) = 1
    /\ ~Phase("overshoot")[1].ok

\* C6 as stated (Spec): when the first overshoot probe is rejected,
\* refine_boundary returns base_size with empty headers.
C6_DegenerateReturnsNoHeaders ==
    (AtRefineReturn /\ FirstOvershootRejected) =>
        last_ok = base_size /\ last_headers = NoHeaders

\* C6 amended (Spec): when the first overshoot probe is rejected, the fine
\* phase runs on [base_size, base_size], issues exactly one probe, of
\* base_size, and refine_boundary returns base_size; the headers are empty
\* when that probe is rejected again and are its response headers when it
\* is accepted.
C6_DegenerateBracket ==
    FirstOvershootRejected =>
        LET f == Phase("fine")
        IN  /\ current = base_size
            /\ last_ok = base_size
            /\ Len(f) <= 1
            /\ Len(f) = 0 =>
                 low = base_size /\ high = base_size /\ last_headers = NoHeaders
            /\ Len(f) = 1 =>
                 /\ f[1].size = base_size
                 /\ low > high
                 /\ last_headers = IF f[1].ok THEN f[1].headers ELSE NoHeaders

\* The refiner returns after a rejected first overshoot probe and an accepted
\* fine probe of the same size.
C6_Witness ==
    /\ AtRefineReturn
    /\ FirstOvershootRejected
    /\ Len(Phase("fine")) = 1
    /\ Phase("fine")[1].ok
    /\ last_headers = HeadersB

\* ---------------------------------------------------------------------- C7
RefineProbes == {e \in Range(log) : e.phase \in {"overshoot", "fine"}}

\* C7 as stated (Spec): when refine_boundary returns (last_ok, last_headers)
\* and some probe of its run of size last_ok was accepted, last_headers are
\* the response headers of an accepted probe of that size.
C7_HeadersOfAcceptedProbe ==
    (AtRefineReturn /\ \E e \in RefineProbes : e.ok /\ e.size = last_ok) =>
        \E e \in RefineProbes :
            e.ok /\ e.size = last_ok /\ e.headers = last_headers

\* C7 amended (Spec): throughout the fine phase and at its return, when some
\* fine probe was accepted, last_ok and last_headers are the size and the
\* response headers of the last accepted fine probe; when none was,
\* last_ok = base_size and last_headers is empty.
C7_HeadersOfLastAcceptedFineProbe ==
    pc = "fine" =>
        LET f == SelectSeq(Phase("fine"), LAMBDA e : e.ok)
        IN  IF f = <<>>
            THEN last_ok = base_size /\ last_headers = NoHeaders
            ELSE last_ok = f[Len(f)].size /\ last_headers = f[Len(f)].headers

\* The refiner returns the headers of an accepted fine probe that a rejected
\* fine probe, with other headers, followed.
C7_Witness ==
    /\ AtRefineReturn
    /\ LET f == Phase("fine")
       IN  /\ Len(f) >= 2
           /\ f[Len(f) - 1].ok
           /\ ~f[Len(f)].ok
           /\ f[Len(f)].headers # f[Len(f) - 1].headers
           /\ last_headers = f[Len(f) - 1].headers
           /\ last_ok = f[Len(f) - 1].size

\* ---------------------------------------------------------------------- C8
\* C8 as stated (Spec): within one pipeline run no size is probed again
\* after a probe of that size was rejected.
C8_NoSizeProbedAfterRejection ==
    \A i, j \in 1..Len(log) :
        (i < j /\ ~log[i].ok) => log[j].size # log[i].size

\* C8 amended (Spec): within one loop (coarse, overshoot, fine) no size is
\* probed twice; after a rejected probe the coarse and the fine loop only
\* probe smaller sizes, and the overshoot loop issues no further probe.
C8_NoRetryWithinLoop ==
    \A i, j \in 1..Len(log) :
        (i < j /\ log[i].phase = log[j].phase) =>
            /\ log[j].size # log[i].size
            /\ ~log[i].ok =>
                 log[i].phase # "overshoot" /\ log[j].size < log[i].size

\* The fine loop went on, with a smaller size, after a rejected probe, the
\* overshoot loop having ended at its first rejected probe.
C8_Witness ==
    /\ AtRefineReturn
    /\ \E i, j \in 1..Len(log) :
         /\ i < j
         /\ log[i].phase = "fine" /\ log[j].phase = "fine"
         /\ ~log[i].ok
         /\ log[j].size < log[i].size
    /\ \E i \in 1..Len(log) :
         /\ log[i].phase = "overshoot" /\ ~log[i].ok
         /\ log[i + 1].phase = "fine"

\* ---------------------------------------------------------------------- C9
\* C9 (Spec): once a coarse search has returned 0, refine_boundary is not
\* running for that kind, no result (hence no limit guess) is stored for it,
\* no probe of that kind is issued afterwards, and the summary, once
\* printed, says that no size was found for that kind.
C9_EmptyCoarseResult ==
    /\ max_header_size = 0 =>
         /\ header_result = None
         /\ pc # "header_coarse"
         /\ ~(pc \in {"overshoot", "fine"} /\ label = "header")
         /\ \A e \in Range(log) : e.kind # "header"
         /\ pc = "done" => ~out[1].header.found
    /\ max_payload_size = 0 =>
         /\ payload_result = None
         /\ pc = "done"
         /\ \A e \in Range(log) : e.phase = "coarse"
         /\ ~out[1].payload.found

\* The run ended with no header size found, under arbitrary header answers,
\* and with a payload result.
C9_Witness ==
    /\ pc = "done"
    /\ "header" \in remote.arb
    /\ max_header_size = 0
    /\ payload_result # None
    /\ out[1].payload.found

\* --------------------------------------------------------------------- C10
\* The vendor entries of the response headers that occur.
Vendor(headers) == {e \in headers : e.key \in {K_Server, K_XAzionId}}

\* C10 as stated (Spec): the summary shows, for each kind with a result, the
\* vendor metadata of that kind's own result headers.
C10_MetadataPerKind ==
    pc = "done" =>
        /\ header_result # None =>
             Vendor(header_result[1].headers) \subseteq out[1].metadata
        /\ payload_result # None =>
             Vendor(payload_result[1].headers) \subseteq out[1].metadata

\* C10 amended (Spec): the summary shows one metadata block: the vendor
\* metadata of the payload result's headers when there is a payload result,
\* else that of the header result's headers when there is a header result.
C10_MetadataFromOneResult ==
    pc = "done" =>
        out[1].metadata =
            IF payload_result # None THEN Vendor(payload_result[1].headers)
            ELSE IF header_result # None THEN Vendor(header_result[1].headers)
            ELSE {}

\* Both pipelines produced a result, with different vendor metadata, and the
\* summary shows the payload result's.
C10_Witness ==
    /\ pc = "done"
    /\ header_result # None
    /\ payload_result # None
    /\ Vendor(header_result[1].headers) # {}
    /\ Vendor(payload_result[1].headers) # {}
    /\ Vendor(header_result[1].headers) # Vendor(payload_result[1].headers)
    /\ out[1].metadata = Vendor(payload_result[1].headers)

\* --------------------------------------------------------------------- C11
\* The step is one probe: one entry is added to the log.
ProbeStep == Len(log') = Len(log) + 1

\* The probe of a probe step.
Probed == log'[Len(log')]

\* C11 (Spec): every probe that is not accepted, whether answered 400 or 431
\* (blocked) or by any other status or a transport failure (error), updates
\* the search in the same way: in the coarse and in the fine loop high
\* becomes mid - 1 and low, the best size and its headers are unchanged; in
\* the overshoot loop the loop ends with `current` unchanged and the fine
\* search is set up on [base_size, current].
C11_ErrorLikeBlocked ==
    [][(ProbeStep /\ last'.status \notin OkStatuses) =>
         /\ Probed.phase = "coarse" =>
              /\ Probed.size = Mid(low, high)
              /\ high' = Probed.size - 1
              /\ low' = low
              /\ found_max' = found_max
              /\ pc' = pc
         /\ Probed.phase = "fine" =>
              /\ Probed.size = Mid(low, high)
              /\ high' = Probed.size - 1
              /\ low' = low
              /\ last_ok' = last_ok
              /\ last_headers' = last_headers
              /\ pc' = pc
         /\ Probed.phase = "overshoot" =>
              /\ Probed.size = current
              /\ current' = current
              /\ pc' = "fine"
              /\ low' = base_size
              /\ high' = current
              /\ last_ok' = base_size
              /\ last_headers' = NoHeaders]_vars

\* A coarse probe answered by an error status (neither accepted nor 400/431)
\* has just moved high below the probed size.
C11_Witness ==
    /\ pc \in {"header_coarse", "payload_coarse"}
    /\ Len(log) >= 2
    /\ last.status = 500
    /\ last.said = "FAILED"
    /\ ~log[Len(log)].ok
    /\ high = log[Len(log)].size - 1
    /\ found_max = log[1].size

\* --------------------------------------------------------------------- C12
InPayloadPipeline ==
    \/ pc \in {"payload_coarse", "done"}
    \/ pc \in {"overshoot", "fine"} /\ label = "payload"

\* The header pipeline is over: its coarse search returned, and its
\* refinement, if any, has stored the header result.
HeaderPipelineOver ==
    /\ max_header_size >= 0
    /\ max_header_size > 0 => header_result # None

\* C12 (SpecLive): the payload pipeline only runs once the header pipeline is
\* over; it starts on its full range with fresh search state whatever the
\* header pipeline did, and never touches the header result; and once the
\* header search has found nothing, the summary is eventually printed.
C12_PipelineIndependence ==
    /\ [](InPayloadPipeline => HeaderPipelineOver)
    /\ [][(pc # "payload_coarse" /\ pc' = "payload_coarse") =>
            /\ low' = cfg.payload.lo
            /\ high' = cfg.payload.hi
            /\ found_max' = 0
            /\ last_ok' = 0
            /\ last_headers' = NoHeaders
            /\ log' = <<>>]_vars
    /\ [][InPayloadPipeline =>
            /\ header_result' = header_result
            /\ max_header_size' = max_header_size
            /\ InPayloadPipeline']_vars
    /\ (max_header_size = 0 ~> pc = "done")

\* --------------------------------------------------------------------- C13
\* The probe of this step is one the remote lets fail (no response at all).
ProbeFails ==
    /\ ProbeStep
    /\ remote.rej = Failure
    /\ Probed.size > remote.T[Probed.kind]

\* C13 (SpecMono): a probe whose request fails yields status 0 and no headers,
\* is reported as an error in every phase, and the search goes on as for any
\* other error: upper bound below the probed size in the coarse and fine
\* loops, end of the overshoot loop with the bracket [base_size, current].
C13_TransportFailure ==
    [][ProbeFails =>
         /\ last'.status = 0
         /\ last'.said \in ErrorVerdicts
         /\ Probed.headers = NoHeaders
         /\ ~Probed.ok
         /\ Probed.phase \in {"coarse", "fine"} =>
              /\ Probed.size = Mid(low, high)
              /\ high' = Probed.size - 1
              /\ low' = low
              /\ pc' = pc
         /\ Probed.phase = "coarse" => found_max' = found_max
         /\ Probed.phase = "fine" =>
              /\ last_ok' = last_ok
              /\ last_headers' = last_headers
         /\ Probed.phase = "overshoot" =>
              /\ pc' = "fine"
              /\ low' = base_size
              /\ high' = current
              /\ current' = current]_vars

\* The run of the source's configuration in which requests above 8192 header
\* bytes and 73000 payload bytes fail: every phase met failures and the
\* summary was reached with both results.
C13_Witness ==
    /\ pc = "done"
    /\ cfg = SourceCfg
    /\ remote.rej = Failure
    /\ remote.T = [header |-> 8192, payload |-> 73000]
    /\ header_result = <<MakeResult(8192, HeadersA)>>
    /\ payload_result = <<MakeResult(73000, HeadersA)>>
    /\ \A ph \in {"coarse", "overshoot", "fine"} :
         \E i \in 1..Len(log) :
             log[i].phase = ph /\ ~log[i].ok /\ log[i].headers = NoHeaders

\* --------------------------------------------------------------------- C14
\* The results async_main has stored, each with the guess made for its size.
StoredResults == Range(header_result) \cup Range(payload_result)

\* The table entries within 5% of a size, by exact arithmetic.
EntriesNear(size) ==
    {L \in Range(common_limits) : 20 * Abs(size - L) < L}

\* C14 (SpecGuess): the guess stored for a size is a table entry exactly when
\* the size is strictly within 5% of it, and the custom label with the size
\* in KB to two decimals otherwise; no size is within 5% of two entries;
\* 65500 gets the 64 KB entry and 77777 the custom label.
C14_GuessTolerance ==
    \A res \in StoredResults :
        /\ Cardinality(EntriesNear(res.size)) <= 1
        /\ \A L \in Range(common_limits) :
             res.guess.limit = L <=> L \in EntriesNear(res.size)
        /\ res.guess.limit = 0 <=> EntriesNear(res.size) = {}
        /\ res.guess.limit = 0 => res.guess.kb100 = Fmt2(res.size, 1024)
        /\ res.size = 65500 => res.guess.limit = 65536
        /\ res.size = 77777 => res.guess = [limit |-> 0, kb100 |-> 7595]

\* The summary was reached with the refined size exactly 5% above the 5 MB
\* entry, which is not a match.
C14_Witness ==
    /\ pc = "done"
    /\ payload_result # None
    /\ payload_result[1].size = 5242880 + 262144
    /\ payload_result[1].guess = [limit |-> 0, kb100 |-> 537600]

\* --------------------------------------------------------------------- C15
\* The overshoot probes so far are base_size, base_size + step, ..., all
\* accepted but the one that ended the loop, which is the size `current`.
OvershootShape ==
    LET ov == Phase("overshoot")
    IN  /\ \A i \in 1..Len(ov) :
             /\ ov[i].size = base_size + (i - 1) * cfg.step
             /\ i < Len(ov) => ov[i].ok
        /\ pc = "overshoot" =>
             /\ \A i \in 1..Len(ov) : ov[i].ok
             /\ current = base_size + Len(ov) * cfg.step
        /\ pc = "fine" =>
             /\ Len(ov) >= 1
             /\ ~ov[Len(ov)].ok
             /\ current = ov[Len(ov)].size
             /\ current = base_size + (Len(ov) - 1) * cfg.step

\* C15 (SpecLive): whatever the remote answers, refine_boundary terminates:
\* the overshoot loop stops at its first rejected probe with `current` the
\* size of that probe, base_size + k * step after k accepted probes, and the
\* fine search over [base_size, current] then ends with low > high.
C15_RefinerTerminates ==
    /\ [](pc \in {"overshoot", "fine"} => OvershootShape)
    /\ (pc = "overshoot" ~> pc = "fine")
    /\ (pc = "fine" ~> AtRefineReturn)

\* --------------------------------------------------------------------- C16
InSearch == pc \in {"header_coarse", "payload_coarse", "fine"}

\* The range the search in progress started with: the configured range of
\* its kind for a coarse search, [base_size, current] for the fine phase.
InitialLow == IF pc = "fine" THEN base_size ELSE cfg[CoarseKind].lo

InitialHigh == IF pc = "fine" THEN current ELSE cfg[CoarseKind].hi

SearchPhase == IF pc = "fine" THEN "fine" ELSE "coarse"

\* C16 (Spec): during a coarse search and during the fine phase, whatever the
\* remote answers, low and high stay within the initial range extended by one
\* (high >= initialLow - 1, low <= initialHigh + 1) and are never negative;
\* when a probe is due (low <= high), initialLow <= low <= mid <= high <=
\* initialHigh; and every size probed by the search lies in its initial range.
C16_SearchRange ==
    InSearch =>
        /\ InitialLow <= low
        /\ low <= InitialHigh + 1
        /\ InitialLow - 1 <= high
        /\ high <= InitialHigh
        /\ low >= 0
        /\ high >= 0
        /\ low <= high =>
             /\ low <= (low + high) \div 2
             /\ (low + high) \div 2 <= high
        /\ \A e \in Range(Phase(SearchPhase)) :
             InitialLow <= e.size /\ e.size <= InitialHigh

\* The fine phase rejected every size of a three-size bracket down to
\* base_size: high is base_size - 1, one below the initial range.
C16_Witness ==
    /\ pc = "fine"
    /\ current = base_size + cfg.step
    /\ Len(Phase("fine")) = 2
    /\ \A e \in Range(Phase("fine")) : ~e.ok
    /\ low = base_size
    /\ high = base_size - 1

\* --------------------------------------------------------------------- C17
\* The fine-phase probes that were accepted, in order.
FineAccepted == SelectSeq(Phase("fine"), LAMBDA e : e.ok)

\* The coarse result refine_boundary was called with.
CoarseResult == IF label = "header" THEN max_header_size ELSE max_payload_size

\* C17 as stated (Spec): whatever the remote answers, when refine_boundary
\* returns, base_size <= returned size <= current, the returned size is not
\* below the coarse result, and the returned headers are empty exactly when
\* no fine-phase probe was accepted.
C17_HeadersEmptyIffNoFineAccepted ==
    AtRefineReturn =>
        /\ base_size <= last_ok
        /\ last_ok <= current
        /\ CoarseResult <= last_ok
        /\ last_headers = NoHeaders <=> FineAccepted = <<>>

\* C17 amended (Spec): whatever the remote answers, when refine_boundary
\* returns, base_size <= returned size <= current, the returned size is not
\* below the coarse result, and the returned size and headers are those of
\* the last accepted fine-phase probe, or base_size and no headers when no
\* fine-phase probe was accepted: non-empty headers imply an accepted
\* fine-phase probe, empty ones do not exclude it.
C17_DegradedResult ==
    AtRefineReturn =>
        /\ base_size <= last_ok
        /\ last_ok <= current
        /\ CoarseResult = base_size
        /\ CoarseResult <= last_ok
        /\ IF FineAccepted = <<>>
           THEN last_ok = base_size /\ last_headers = NoHeaders
           ELSE /\ last_ok = FineAccepted[Len(FineAccepted)].size
                /\ last_headers = FineAccepted[Len(FineAccepted)].headers
        /\ last_headers # NoHeaders => FineAccepted # <<>>

\* A remote that is neither monotonic nor deterministic: the fine phase had a
\* probe accepted with vendor headers, then accepted without any header the
\* size the overshoot loop had seen rejected, which is returned.
C17_Witness ==
    /\ AtRefineReturn
    /\ Len(FineAccepted) = 2
    /\ FineAccepted[1].headers = HeadersB
    /\ FineAccepted[2].size = current
    /\ FineAccepted[2].headers = NoHeaders
    /\ last_ok = current
    /\ last_headers = NoHeaders
    /\ current > base_size

====
